---- MODULE Spec2Model ----
(***************************************************************************)
(* A model of converter/converter.py: the conversion of a sharded          *)
(* checkpoint into one flat binary file.  Tensor names are sequences of    *)
(* their dot-separated components, tensors are records of a shape and the  *)
(* flattened (row-major) data, whose elements are the row-major indices of *)
(* the elements in the logical (whole-model) tensor.  The output file is a *)
(* position and the log of the buffers written, each with its offset.      *)
(***************************************************************************)
EXTENDS Integers, Sequences, FiniteSets, TLC

VARIABLES
    input,              \* the checkpoint directory chosen for the run (never changes)
    params,             \* params.json as loaded, with hidden_dim overwritten at l.152
    targetFloatType,    \* sys.argv[2]
    models,             \* the shard files, in sorted order: each an ordered dict
    pc,                 \* position in convert()
    shardIdx,           \* number of shards whose iteration of the outer loop started
    tensorIdx,          \* number of tensors of modelDict whose iteration started
    modelDict,          \* toDict([model]) of the current shard
    isHeaderWritten,
    layout,             \* headerOffset, blockOffsets, afterBlocksOffset, ropeBytes
    layerSize,          \* the local variable layerSize: <<>> until first assigned, then <<size>>
    layerProcessedBytes,\* dict: tensor name -> bytes written, or -1 when completed
    outFile,            \* [pos, log]: the file position and the writes made
    lastExport,         \* the last exportTensor call
    skipped,            \* names whose iteration ended at the `continue` of l.167
    warnings,           \* the "is not completed" lines printed at l.206
    error               \* the exception that ended the run, or "none"

vars == <<input, params, targetFloatType, models, pc, shardIdx, tensorIdx,
          modelDict, isHeaderWritten, layout, layerSize, layerProcessedBytes,
          outFile, lastExport, skipped, warnings, error>>

---------------------------------------------------------------------------
(* Bounds of the model *)

MaxShards == 2
MaxLayers == 2
MaxElems == 70

(* Program constants *)
groupSize == 32
maxSeqLen == 2048
HeaderInts == 7
IntBytes == 4

Unbound == "unbound"
FloatTypes == {"float32", "float16", "q40"}

---------------------------------------------------------------------------
(* Generic helpers *)

RECURSIVE SumSeq(_)
SumSeq(s) == IF s = <<>> THEN 0 ELSE Head(s) + SumSeq(Tail(s))

RECURSIVE Flatten(_)
Flatten(ss) == IF ss = <<>> THEN <<>> ELSE Head(ss) \o Flatten(Tail(ss))

Prod(shape) == IF Len(shape) = 1 THEN shape[1] ELSE shape[1] * shape[2]

(* An ordered dict is a sequence of [name, tensor] records. *)
Keys(d) == {d[i].name : i \in 1..Len(d)}
Lookup(d, name) == d[CHOOSE i \in 1..Len(d) : d[i].name = name].tensor

---------------------------------------------------------------------------
(* Tensor names *)

FieldOrder ==
    << <<"attention_norm", "weight">>,
       <<"ffn_norm", "weight">>,
       <<"attention", "wq", "weight">>,
       <<"attention", "wk", "weight">>,
       <<"attention", "wv", "weight">>,
       <<"attention", "wo", "weight">>,
       <<"feed_forward", "w1", "weight">>,
       <<"feed_forward", "w2", "weight">>,
       <<"feed_forward", "w3", "weight">> >>

Fields == {FieldOrder[i] : i \in 1..Len(FieldOrder)}

Digits == <<"0", "1", "2", "3", "4", "5", "6", "7", "8", "9">>

LayerName(i, f) == <<"layers", Digits[i + 1]>> \o f
TokName == <<"tok_embeddings", "weight">>
NormName == <<"norm", "weight">>
RopeName == <<"rope", "freqs">>
OutputName == <<"output", "weight">>
W1Name == LayerName(0, <<"feed_forward", "w1", "weight">>)

(* key + '_offset' on the dotted string: the suffix lands on the last component *)
AddSuffix(key, s) == [key EXCEPT ![Len(key)] = @ \o s]

(* layerName.split('.', 2): at most three parts, the third keeps its dots *)
Split2(name) ==
    IF Len(name) <= 2 THEN [i \in 1..Len(name) |-> <<name[i]>>]
    ELSE << <<name[1]>>, <<name[2]>>, SubSeq(name, 3, Len(name)) >>

(* int(s) for the strings the model uses: a decimal digit, else ValueError *)
IsInt(s) == \E i \in 1..Len(Digits) : Digits[i] = s
IntOf(s) == (CHOOSE i \in 1..Len(Digits) : Digits[i] = s) - 1

EndsWith(name, suffix) ==
    /\ Len(name) > Len(suffix)
    /\ SubSeq(name, Len(name) - Len(suffix) + 1, Len(name)) = suffix

---------------------------------------------------------------------------
(* Tensors *)

Tensor(shape, data) == [shape |-> shape, data |-> data]

(* torch.cat(tensors, dim=axis) of rank-2 tensors with equal other dimension *)
RECURSIVE CatRows(_)
CatRows(ts) == IF ts = <<>> THEN <<>> ELSE Head(ts).data \o CatRows(Tail(ts))

RowOf(t, r) == SubSeq(t.data, (r - 1) * t.shape[2] + 1, r * t.shape[2])

RECURSIVE CatAcross(_, _)
CatAcross(ts, r) ==
    IF ts = <<>> THEN <<>> ELSE RowOf(Head(ts), r) \o CatAcross(Tail(ts), r)

Cat(ts, axis) ==
    IF axis = 0
    THEN Tensor(<<SumSeq([i \in 1..Len(ts) |-> ts[i].shape[1]]), ts[1].shape[2]>>,
                CatRows(ts))
    ELSE Tensor(<<ts[1].shape[1], SumSeq([i \in 1..Len(ts) |-> ts[i].shape[2]])>>,
                Flatten([r \in 1..ts[1].shape[1] |-> CatAcross(ts, r)]))

IsAxis1(name) ==
    \/ (Len(name) >= 2 /\ name[1] = "tok_embeddings")
    \/ EndsWith(name, <<"attention", "wo", "weight">>)
    \/ EndsWith(name, <<"feed_forward", "w2", "weight">>)

(* toDict(models): the names of models[0], in its order *)
toDict(ms) ==
    [k \in 1..Len(ms[1]) |->
        LET name == ms[1][k].name
            tensors == [m \in 1..Len(ms) |-> Lookup(ms[m], name)]
        IN  [name |-> name,
             tensor |-> IF Len(tensors) = 1 \/ Len(tensors[1].shape) = 1
                        THEN tensors[1]
                        ELSE Cat(tensors, IF IsAxis1(name) THEN 1 ELSE 0)]]

---------------------------------------------------------------------------
(* Encoding.  A buffer is [len, items]: its length in bytes and the encoded  *)
(* items it holds, in order.                                                *)

getBytes(nNumbers, floatType) ==
    CASE floatType = "float32" -> nNumbers * 4
      [] floatType = "float16" -> nNumbers * 2
      [] floatType = "q40" -> (nNumbers \div 32) * 18

(* the bytes of one group: the 2-byte delta, then one byte per pair *)
RECURSIVE PairBytes(_)
PairBytes(i) == IF i = 0 THEN 0 ELSE 1 + PairBytes(i - 1)

(* a variant that counts the delta as a 4-byte float *)
QuantizeGroupWide(group) ==
    [len |-> 4 + PairBytes(groupSize \div 2),
     items |-> <<[kind |-> "q40", elems |-> group]>>]

QuantizeGroup(group) ==
    [len |-> 2 + PairBytes(groupSize \div 2),
     items |-> <<[kind |-> "q40", elems |-> group]>>]

(* quantizeQ40(x, file): one file.write per group; the assertion of l.13 *)
quantizeQ40(x) ==
    IF Len(x) % groupSize # 0
    THEN [ok |-> FALSE, bufs |-> <<>>, nBytes |-> 0]
    ELSE LET groups == [g \in 1..(Len(x) \div groupSize) |->
                           SubSeq(x, (g - 1) * groupSize + 1, g * groupSize)]
             bufs == [g \in 1..Len(groups) |-> QuantizeGroup(groups[g])]
         IN  [ok |-> TRUE, bufs |-> bufs,
              nBytes |-> SumSeq([g \in 1..Len(bufs) |-> bufs[g].len])]

(* struct.pack(f'{len(d)}e' or f'{len(d)}f', *d) *)
Pack(d, kind, itemBytes) ==
    [len |-> itemBytes * Len(d),
     items |-> [i \in 1..Len(d) |-> [kind |-> kind, elems |-> <<d[i]>>]]]

(* exportTensor(file, tensor, floatType): the buffers written and the count *)
(* returned                                                                 *)
exportTensor(tensor, floatType) ==
    LET d == tensor.data IN
    CASE floatType = "float16" ->
           [ok |-> TRUE, bufs |-> <<Pack(d, "f16", 2)>>, nBytes |-> Pack(d, "f16", 2).len]
      [] floatType = "float32" ->
           [ok |-> TRUE, bufs |-> <<Pack(d, "f32", 4)>>, nBytes |-> Pack(d, "f32", 4).len]
      [] floatType = "q40" -> quantizeQ40(d)
      [] OTHER -> [ok |-> FALSE, bufs |-> <<>>, nBytes |-> 0]

(* file.write(buffer) for each buffer in turn, from the current position *)
RECURSIVE WriteAll(_, _, _)
WriteAll(file, bufs, name) ==
    IF bufs = <<>> THEN file
    ELSE WriteAll([pos |-> file.pos + Head(bufs).len,
                   log |-> Append(file.log, [off |-> file.pos,
                                             len |-> Head(bufs).len,
                                             items |-> Head(bufs).items,
                                             name |-> name])],
                  Tail(bufs), name)

Seek(file, offset) == [file EXCEPT !.pos = offset]

---------------------------------------------------------------------------
(* Layout *)

HeaderName == <<"header">>

(* writeHeader: struct.pack('iiiiiii', ...) *)
HeaderBuf(p) ==
    [len |-> HeaderInts * IntBytes,
     items |-> <<[kind |-> "i32",
                  elems |-> <<p.dim, p.hidden_dim, p.n_layers, p.n_heads,
                              p.n_kv_heads, p.vocab_size, p.max_seq_len>>]>>]

(* getBlockOffsets: the 9 sizes, then key + '_offset' for each in order, *)
(* then '_total'                                                          *)
BlockSizes(p, floatType) ==
    LET kvDim == (p.dim * p.n_kv_heads) \div p.n_heads
    IN  << getBytes(p.dim, "float32"),
           getBytes(p.dim, "float32"),
           getBytes(p.dim * p.dim, floatType),
           getBytes(p.dim * kvDim, floatType),
           getBytes(p.dim * kvDim, floatType),
           getBytes(p.dim * p.dim, floatType),
           getBytes(p.dim * p.hidden_dim, floatType),
           getBytes(p.hidden_dim * p.dim, floatType),
           getBytes(p.dim * p.hidden_dim, floatType) >>

RECURSIVE RunningTotal(_, _)
RunningTotal(sizes, k) == IF k = 0 THEN 0 ELSE RunningTotal(sizes, k - 1) + sizes[k]

getBlockOffsets(p, floatType) ==
    LET sizes == BlockSizes(p, floatType)
        n == Len(FieldOrder)
    IN  [key \in Fields \cup {AddSuffix(f, "_offset") : f \in Fields} \cup {<<"_total">>} |->
            IF key = <<"_total">> THEN RunningTotal(sizes, n)
            ELSE IF key \in Fields
                 THEN sizes[CHOOSE i \in 1..n : FieldOrder[i] = key]
                 ELSE RunningTotal(sizes,
                         (CHOOSE i \in 1..n : AddSuffix(FieldOrder[i], "_offset") = key) - 1)]

tokenEmbeddingBytes == getBytes(params.vocab_size * params.dim, "float32")
rmsFinalBytes == getBytes(params.dim, "float32")
wclsBytes == getBytes(params.vocab_size * params.dim, targetFloatType)

---------------------------------------------------------------------------
(* The checkpoint directory: params.json and the consolidated.*.pth shards. *)
(* A logical tensor holds its own row-major indices; shard s of n holds the *)
(* s-th of n equal parts along the axis the tensor is sharded on.           *)

NHeads == 2
Dims == {2, 6, 8}
CkptFields ==
    << <<"attention", "wq", "weight">>,
       <<"attention", "wk", "weight">>,
       <<"attention", "wv", "weight">>,
       <<"attention", "wo", "weight">>,
       <<"feed_forward", "w1", "weight">>,
       <<"feed_forward", "w2", "weight">>,
       <<"feed_forward", "w3", "weight">>,
       <<"attention_norm", "weight">>,
       <<"ffn_norm", "weight">> >>

BadNames ==
    { <<"foo", "bar">>,
      <<"layers">>,
      <<"layers", "0", "foo", "weight">>,
      <<"layers", "x", "attention", "wq", "weight">>,
      <<"layers", "0", "attention_norm", "weight_offset">>,
      <<"layers", "0", "_total">> }

Anomalies ==
    {[kind |-> k, name |-> <<>>, pos |-> 0] : k \in {"none", "bigVocab", "dropOutput"}}
    \cup {[kind |-> "unknown", name |-> b, pos |-> q] : b \in BadNames, q \in {1, 3}}

KvHeads(in) == IF in.n_kv_heads = 0 THEN NHeads ELSE in.n_kv_heads
KvDim(in) == (in.dim * KvHeads(in)) \div NHeads
HiddenDim(in) == 2 * in.dim
CkptVocab(in) == IF in.anomaly.kind = "bigVocab" THEN 2 * in.dim ELSE in.dim

Inputs ==
    {in \in [dim : Dims, n_kv_heads : {0, 1}, n_layers : 1..MaxLayers,
             nShards : 1..MaxShards, rope : {"first", "last", "absent"},
             anomaly : Anomalies] :
        /\ in.dim % in.nShards = 0
        /\ KvDim(in) % in.nShards = 0
        /\ in.n_layers <= Len(Digits)}

(* the shape of the whole tensor in the checkpoint *)
LogicalShape(in, name) ==
    LET f == IF name[1] = "layers" THEN SubSeq(name, 3, Len(name)) ELSE name IN
    CASE f = TokName -> <<CkptVocab(in), in.dim>>
      [] f = OutputName -> <<CkptVocab(in), in.dim>>
      [] f \in {<<"attention", "wq", "weight">>, <<"attention", "wo", "weight">>} ->
            <<in.dim, in.dim>>
      [] f \in {<<"attention", "wk", "weight">>, <<"attention", "wv", "weight">>} ->
            <<KvDim(in), in.dim>>
      [] f \in {<<"feed_forward", "w1", "weight">>, <<"feed_forward", "w3", "weight">>} ->
            <<HiddenDim(in), in.dim>>
      [] f = <<"feed_forward", "w2", "weight">> -> <<in.dim, HiddenDim(in)>>
      [] f = RopeName -> <<1>>
      [] OTHER -> <<in.dim>>

Logical(in, name) ==
    Tensor(LogicalShape(in, name), [k \in 1..Prod(LogicalShape(in, name)) |-> k - 1])

(* shard s (from 0) of n: rank-1 tensors are replicated *)
ShardSlice(in, name, s) ==
    LET shape == LogicalShape(in, name)
        n == in.nShards
    IN  IF Len(shape) = 1 THEN Logical(in, name)
        ELSE IF IsAxis1(name)
        THEN LET w == shape[2] \div n IN
             Tensor(<<shape[1], w>>,
                    [k \in 1..(shape[1] * w) |->
                        ((k - 1) \div w) * shape[2] + s * w + ((k - 1) % w)])
        ELSE LET h == shape[1] \div n IN
             Tensor(<<h, shape[2]>>,
                    [k \in 1..(h * shape[2]) |-> s * h * shape[2] + (k - 1)])

LayerNames(in) ==
    Flatten([i \in 1..in.n_layers |->
                [j \in 1..Len(CkptFields) |-> LayerName(i - 1, CkptFields[j])]])

InsertAt(seq, q, x) ==
    IF q > Len(seq) THEN Append(seq, x)
    ELSE SubSeq(seq, 1, q - 1) \o <<x>> \o SubSeq(seq, q, Len(seq))

ShardNames(in, s) ==
    LET base == <<TokName>> \o LayerNames(in) \o <<NormName>>
                \o (IF in.anomaly.kind = "dropOutput" /\ s = in.nShards - 1
                    THEN <<>> ELSE <<OutputName>>)
        roped == CASE in.rope = "first" -> <<RopeName>> \o base
                   [] in.rope = "last" -> base \o <<RopeName>>
                   [] OTHER -> base
    IN  IF in.anomaly.kind = "unknown" /\ s = in.nShards - 1
        THEN InsertAt(roped, in.anomaly.pos, in.anomaly.name)
        ELSE roped

Shard(in, s) ==
    [k \in 1..Len(ShardNames(in, s)) |->
        LET name == ShardNames(in, s)[k] IN
        [name |-> name,
         tensor |-> IF name \in BadNames THEN Tensor(<<in.dim>>, [i \in 1..in.dim |-> i - 1])
                    ELSE ShardSlice(in, name, s)]]

Checkpoint(in) == [s \in 1..in.nShards |-> Shard(in, s - 1)]

(* params.json as convert() holds it after l.131-136 *)
LoadParams(in) ==
    [dim |-> in.dim,
     hidden_dim |-> Unbound,
     n_layers |-> in.n_layers,
     n_heads |-> NHeads,
     n_kv_heads |-> IF in.n_kv_heads = 0 THEN NHeads ELSE in.n_kv_heads,
     vocab_size |-> in.dim,
     head_size |-> in.dim \div NHeads,
     max_seq_len |-> maxSeqLen]

None == [kind |-> "none"]
EmptyFile == [pos |-> 0, log |-> <<>>]
NoLayout == [headerOffset |-> Unbound, blockOffsets |-> <<>>,
             afterBlocksOffset |-> Unbound, ropeBytes |-> Unbound]

Init ==
    /\ input \in Inputs
    /\ targetFloatType \in FloatTypes
    /\ params = LoadParams(input)
    /\ models = Checkpoint(input)
    /\ pc = "shard"
    /\ shardIdx = 0
    /\ tensorIdx = 0
    /\ modelDict = <<>>
    /\ isHeaderWritten = FALSE
    /\ layout = NoLayout
    /\ layerSize = <<>>
    /\ layerProcessedBytes = <<>>
    /\ outFile = EmptyFile
    /\ lastExport = None
    /\ skipped = {}
    /\ warnings = {}
    /\ error = "none"

---------------------------------------------------------------------------
(* convert(): the outer loop over the shards (l.148-157) *)

Fail(e) ==
    /\ pc' = "failed"
    /\ error' = e

(* a variant whose afterBlocksOffset leaves the header out *)
PlanLayoutNoHeader(p, floatType, file) ==
    LET headerOffset == HeaderInts * IntBytes
        blockOffsets == getBlockOffsets(p, floatType)
    IN  [headerOffset |-> headerOffset,
         blockOffsets |-> blockOffsets,
         afterBlocksOffset |-> tokenEmbeddingBytes
                                + blockOffsets[<<"_total">>] * p.n_layers,
         ropeBytes |-> getBytes((p.max_seq_len * p.head_size) \div 2, "float32") * 2]

(* l.152-157, run on the first shard only *)
PlanLayout(p, floatType, file) ==
    LET headerOffset == HeaderInts * IntBytes
        blockOffsets == getBlockOffsets(p, floatType)
    IN  [headerOffset |-> headerOffset,
         blockOffsets |-> blockOffsets,
         afterBlocksOffset |-> headerOffset + tokenEmbeddingBytes
                                + blockOffsets[<<"_total">>] * p.n_layers,
         ropeBytes |-> getBytes((p.max_seq_len * p.head_size) \div 2, "float32") * 2]

LoadShard ==
    /\ pc = "shard"
    /\ shardIdx < Len(models)
    /\ LET md == toDict(<<models[shardIdx + 1]>>) IN
       /\ shardIdx' = shardIdx + 1
       /\ tensorIdx' = 0
       /\ modelDict' = md
       /\ IF isHeaderWritten
          THEN /\ pc' = IF md = <<>> THEN "shard" ELSE "tensor"
               /\ UNCHANGED <<params, outFile, layout, isHeaderWritten, error>>
          ELSE IF W1Name \notin Keys(md)
          THEN /\ Fail("KeyError")
               /\ UNCHANGED <<params, outFile, layout, isHeaderWritten>>
          ELSE LET p == [params EXCEPT !.hidden_dim = Lookup(md, W1Name).shape[1]] IN
               /\ params' = p
               /\ outFile' = WriteAll(outFile, <<HeaderBuf(p)>>, HeaderName)
               /\ layout' = PlanLayout(p, targetFloatType, outFile)
               /\ isHeaderWritten' = TRUE
               /\ pc' = IF md = <<>> THEN "shard" ELSE "tensor"
               /\ UNCHANGED error
    /\ UNCHANGED <<input, targetFloatType, models, layerSize, layerProcessedBytes,
                   lastExport, skipped, warnings>>

---------------------------------------------------------------------------
(* convert(): one iteration of the inner loop over the tensors (l.159-201) *)

(* a variant that reads the Complete sentinel as "nothing written yet" *)
GetProcessedNoSentinel(name) ==
    IF name \in DOMAIN layerProcessedBytes /\ layerProcessedBytes[name] > 0
    THEN layerProcessedBytes[name] ELSE 0

(* layerProcessedBytes.get(layerName) or 0 *)
GetProcessed(name) ==
    IF name \in DOMAIN layerProcessedBytes THEN layerProcessedBytes[name] ELSE 0

(* outFile.seek(offset); processedBytes += exportTensor(outFile, tensor, floatType) *)
SeekAndExport(name, tensor, size, base, processedBytes, floatType) ==
    LET ex == exportTensor(tensor, floatType)
        sought == Seek(outFile, base + processedBytes)
    IN  [err |-> IF ex.ok THEN "none" ELSE "AssertionError",
         layerSize |-> <<size>>,
         file |-> WriteAll(sought, ex.bufs, name),
         processedBytes |-> processedBytes + ex.nBytes,
         export |-> [kind |-> "export", n |-> Len(tensor.data), floatType |-> floatType,
                     ok |-> ex.ok, nBytes |-> ex.nBytes, name |-> name,
                     base |-> base, offset |-> base + processedBytes]]

(* a variant that swallows the exception and goes on with the next tensor *)
RaiseIgnored(e, size) ==
    [err |-> "none", layerSize |-> size, file |-> outFile, processedBytes |-> 0,
     export |-> lastExport]

Raise(e, size) ==
    [err |-> e, layerSize |-> size, file |-> outFile, processedBytes |-> 0,
     export |-> lastExport]

(* the if/elif chain of l.169-194 *)
Dispatch(name, tensor, processedBytes) ==
    LET nameParts == Split2(name)
        bo == layout.blockOffsets
    IN  IF nameParts[1] = <<"layers">>
        THEN IF Len(nameParts) < 2 THEN Raise("IndexError", layerSize)
             ELSE IF ~IsInt(nameParts[2][1]) THEN Raise("ValueError", layerSize)
             ELSE IF Len(nameParts) < 3 THEN Raise("IndexError", layerSize)
             ELSE IF nameParts[3] \notin DOMAIN bo THEN Raise("KeyError", layerSize)
             ELSE IF AddSuffix(nameParts[3], "_offset") \notin DOMAIN bo
                  THEN Raise("KeyError", <<bo[nameParts[3]]>>)
             ELSE LET index == IntOf(nameParts[2][1])
                      layerOffset == bo[AddSuffix(nameParts[3], "_offset")]
                      tensorFloatType ==
                          IF nameParts[3] = <<"attention_norm", "weight">>
                             \/ nameParts[3] = <<"ffn_norm", "weight">>
                          THEN "float32" ELSE targetFloatType
                  IN  SeekAndExport(name, tensor, bo[nameParts[3]],
                                    layout.headerOffset + tokenEmbeddingBytes
                                      + bo[<<"_total">>] * index + layerOffset,
                                    processedBytes, tensorFloatType)
        ELSE IF name = TokName
        THEN SeekAndExport(name, tensor, tokenEmbeddingBytes, layout.headerOffset,
                           processedBytes, "float32")
        ELSE IF name = NormName
        THEN SeekAndExport(name, tensor, rmsFinalBytes, layout.afterBlocksOffset,
                           processedBytes, "float32")
        ELSE IF name = RopeName
        THEN [err |-> "none", layerSize |-> layerSize, file |-> outFile,
              processedBytes |-> -1, export |-> lastExport]
        ELSE IF name = OutputName
        THEN SeekAndExport(name, tensor, wclsBytes,
                           layout.afterBlocksOffset + rmsFinalBytes + layout.ropeBytes,
                           processedBytes, targetFloatType)
        ELSE Raise("Unknown layer", layerSize)

(* l.196-201: the completion test and the update of the progress dict *)
Settle(processedBytes, size) ==
    IF processedBytes = size THEN -1 ELSE processedBytes

AdvanceTensor ==
    /\ tensorIdx' = tensorIdx + 1
    /\ pc' = IF tensorIdx + 1 = Len(modelDict) THEN "shard" ELSE "tensor"

ExportLayer ==
    /\ pc = "tensor"
    /\ tensorIdx < Len(modelDict)
    /\ LET name == modelDict[tensorIdx + 1].name
           tensor == modelDict[tensorIdx + 1].tensor
           processedBytes == GetProcessed(name)
       IN  IF processedBytes = -1
           THEN /\ skipped' = skipped \cup {name}
                /\ AdvanceTensor
                /\ UNCHANGED <<layerSize, layerProcessedBytes, outFile, lastExport, error>>
           ELSE LET r == Dispatch(name, tensor, processedBytes) IN
                /\ layerSize' = r.layerSize
                /\ outFile' = r.file
                /\ lastExport' = r.export
                /\ skipped' = skipped
                /\ IF r.err # "none"
                   THEN /\ Fail(r.err)
                        /\ tensorIdx' = tensorIdx + 1
                        /\ UNCHANGED layerProcessedBytes
                   ELSE IF r.layerSize = <<>>
                   THEN /\ Fail("UnboundLocalError")
                        /\ tensorIdx' = tensorIdx + 1
                        /\ UNCHANGED layerProcessedBytes
                   ELSE /\ layerProcessedBytes' =
                              [n \in DOMAIN layerProcessedBytes \cup {name} |->
                                  IF n = name THEN Settle(r.processedBytes, r.layerSize[1])
                                  ELSE layerProcessedBytes[n]]
                        /\ AdvanceTensor
                        /\ UNCHANGED error
    /\ UNCHANGED <<input, params, targetFloatType, models, shardIdx, modelDict,
                   isHeaderWritten, layout, warnings>>

---------------------------------------------------------------------------
(* convert(): after the last shard (l.203-208) *)

Report ==
    /\ pc = "shard"
    /\ shardIdx = Len(models)
    /\ warnings' = {[name |-> n, processedBytes |-> layerProcessedBytes[n]] :
                      n \in {m \in DOMAIN layerProcessedBytes : layerProcessedBytes[m] >= 0}}
    /\ pc' = "done"
    /\ UNCHANGED <<input, params, targetFloatType, models, shardIdx, tensorIdx,
                   modelDict, isHeaderWritten, layout, layerSize, layerProcessedBytes,
                   outFile, lastExport, skipped, error>>

Next == LoadShard \/ ExportLayer \/ Report

Spec == Init /\ [][Next]_vars

---------------------------------------------------------------------------
(* The encoder alone: exportTensor on a flat tensor of n elements, for every *)
(* n up to MaxElems and every float type.                                    *)

InitEnc ==
    /\ input \in [n : 0..MaxElems]
    /\ targetFloatType \in FloatTypes
    /\ params = <<>>
    /\ models = <<>>
    /\ pc = "encode"
    /\ shardIdx = 0
    /\ tensorIdx = 0
    /\ modelDict = <<[name |-> <<"x">>,
                      tensor |-> Tensor(<<input.n>>, [i \in 1..input.n |-> i - 1])]>>
    /\ isHeaderWritten = FALSE
    /\ layout = NoLayout
    /\ layerSize = <<>>
    /\ layerProcessedBytes = <<>>
    /\ outFile = EmptyFile
    /\ lastExport = None
    /\ skipped = {}
    /\ warnings = {}
    /\ error = "none"

EncodeTensor ==
    /\ pc = "encode"
    /\ LET tensor == modelDict[1].tensor
           ex == exportTensor(tensor, targetFloatType)
       IN  /\ outFile' = WriteAll(outFile, ex.bufs, modelDict[1].name)
           /\ lastExport' = [kind |-> "export", n |-> Len(tensor.data),
                             floatType |-> targetFloatType, ok |-> ex.ok,
                             nBytes |-> ex.nBytes, name |-> modelDict[1].name,
                             base |-> 0, offset |-> outFile.pos]
           /\ pc' = IF ex.ok THEN "encoded" ELSE "failed"
           /\ error' = IF ex.ok THEN "none" ELSE "AssertionError"
    /\ UNCHANGED <<input, params, targetFloatType, models, shardIdx, tensorIdx,
                   modelDict, isHeaderWritten, layout, layerSize, layerProcessedBytes,
                   skipped, warnings>>

NextEnc == EncodeTensor

SpecEnc == InitEnc /\ [][NextEnc]_vars

---------------------------------------------------------------------------
(* Vocabulary of the properties *)

PlannedLayerNames ==
    {LayerName(i, f) : i \in 0..(params.n_layers - 1), f \in Fields}

(* the tensors of the planned layout that have an expected total size *)
PlannedTensors == {TokName, NormName, OutputName} \cup PlannedLayerNames

ExpectedSize(name) ==
    CASE name = TokName -> tokenEmbeddingBytes
      [] name = NormName -> rmsFinalBytes
      [] name = OutputName -> wclsBytes
      [] OTHER -> layout.blockOffsets[SubSeq(name, 3, Len(name))]

NotStarted(name) == name \notin DOMAIN layerProcessedBytes
Complete(name) == name \in DOMAIN layerProcessedBytes /\ layerProcessedBytes[name] = -1
BytesWritten(name) == IF NotStarted(name) THEN 0 ELSE layerProcessedBytes[name]

(* the regions of the file in the order of the layout *)
RegionOrder ==
    <<HeaderName, TokName>>
    \o Flatten([i \in 1..params.n_layers |->
                   [j \in 1..Len(FieldOrder) |-> LayerName(i - 1, FieldOrder[j])]])
    \o <<NormName, RopeName, OutputName>>

RegionSize(name) ==
    CASE name = HeaderName -> 28
      [] name = RopeName -> layout.ropeBytes
      [] OTHER -> ExpectedSize(name)

RECURSIVE TileBefore(_, _)
TileBefore(order, k) ==
    IF k = 1 THEN 0 ELSE TileBefore(order, k - 1) + RegionSize(order[k - 1])

TileStart(name) ==
    LET order == RegionOrder
    IN  TileBefore(order, CHOOSE k \in 1..Len(order) : order[k] = name)

(* the tensor the inner loop is about to process *)
AtTensor == pc = "tensor" /\ tensorIdx < Len(modelDict)
CurName == modelDict[tensorIdx + 1].name

(* the tensor of the iteration that just ended *)
LastName == modelDict[tensorIdx].name

Recognized(name) ==
    \/ name \in {TokName, NormName, RopeName, OutputName}
    \/ /\ Len(name) >= 3
       /\ name[1] = "layers"
       /\ IsInt(name[2])
       /\ SubSeq(name, 3, Len(name)) \in Fields

WritesOf(name) == {k \in 1..Len(outFile.log) : outFile.log[k].name = name}

---------------------------------------------------------------------------
(* C1: for every tensor with an expected total size, the bytes written never *)
(* exceed that size in any reachable state (an overshooting write aborts the *)
(* run instead of being recorded), and Complete is entered only on exact     *)
(* equality.                                                                 *)
C1_NeverOvershoots ==
    isHeaderWritten =>
        \A name \in PlannedTensors \cap DOMAIN layerProcessedBytes :
            layerProcessedBytes[name] <= ExpectedSize(name)

(* C5: the offsets the write loop seeks to tile the file: header at 0 with   *)
(* 28 bytes, then token embeddings, the blocks field by field, the final     *)
(* norm, the reserved rope region and the output weights, each starting      *)
(* where the one before ends.                                                *)
C5_OffsetsTileFile ==
    /\ isHeaderWritten =>
          /\ outFile.log[1].off = 0
          /\ outFile.log[1].len = 28
          /\ layout.headerOffset = 28
          /\ layout.afterBlocksOffset = TileStart(NormName)
          /\ layout.afterBlocksOffset + rmsFinalBytes = TileStart(RopeName)
          /\ \A j \in 1..Len(FieldOrder) :
                layout.blockOffsets[AddSuffix(FieldOrder[j], "_offset")]
                    = SumSeq([k \in 1..(j - 1) |-> layout.blockOffsets[FieldOrder[k]]])
          /\ layout.blockOffsets[<<"_total">>]
                = SumSeq([k \in 1..Len(FieldOrder) |-> layout.blockOffsets[FieldOrder[k]]])
    /\ (lastExport.kind = "export" /\ lastExport.name \in PlannedTensors) =>
          lastExport.base = TileStart(lastExport.name)

C5_Witness ==
    /\ lastExport.kind = "export"
    /\ lastExport.ok
    /\ lastExport.name = OutputName
    /\ params.n_layers >= 2
    /\ LayerName(1, <<"feed_forward", "w3", "weight">>) \in DOMAIN layerProcessedBytes

(* C6: the bytes an export writes and returns equal sizeOf(n, encoding): 4n  *)
(* for F32, 2n for F16, 18*(n/32) for Q40, where Q40 requires n % 32 = 0.     *)
C6_EncodedSize ==
    lastExport.kind = "export" =>
        /\ lastExport.floatType = "q40" => (lastExport.ok <=> lastExport.n % 32 = 0)
        /\ lastExport.floatType # "q40" => lastExport.ok
        /\ lastExport.ok =>
              /\ lastExport.nBytes = getBytes(lastExport.n, lastExport.floatType)
              /\ lastExport.nBytes =
                    (CASE lastExport.floatType = "float32" -> 4 * lastExport.n
                       [] lastExport.floatType = "float16" -> 2 * lastExport.n
                       [] lastExport.floatType = "q40" -> 18 * (lastExport.n \div 32))
              /\ outFile.pos = lastExport.offset + lastExport.nBytes
              /\ SumSeq([k \in 1..Len(outFile.log) |->
                           IF /\ outFile.log[k].name = lastExport.name
                              /\ outFile.log[k].off >= lastExport.offset
                           THEN outFile.log[k].len ELSE 0]) = lastExport.nBytes

C6_Witness ==
    /\ lastExport.kind = "export"
    /\ lastExport.ok
    /\ lastExport.floatType = "q40"
    /\ lastExport.n = 2 * groupSize
    /\ Len(outFile.log) = 2


---------------------------------------------------------------------------
(* Reading the file back: the items found from offset cur up to end, taking *)
(* at each offset the latest write that starts there; a hole where no write *)
(* starts, or where a write runs past end.                                  *)
Hole == [kind |-> "hole", elems |-> <<>>]

RECURSIVE ReadRegion(_, _)
ReadRegion(cur, end) ==
    IF cur = end THEN <<>>
    ELSE IF cur > end THEN <<Hole>>
    ELSE LET at == {k \in 1..Len(outFile.log) :
                       outFile.log[k].off = cur /\ outFile.log[k].len > 0}
         IN  IF at = {} THEN <<Hole>>
             ELSE LET k == CHOOSE m \in at : \A o \in at : o <= m
                  IN  outFile.log[k].items
                        \o ReadRegion(cur + outFile.log[k].len, end)

(* the encoding of a whole tensor: the items of the buffers exportTensor makes *)
Encoded(tensor, floatType) ==
    Flatten([k \in 1..Len(exportTensor(tensor, floatType).bufs) |->
                exportTensor(tensor, floatType).bufs[k].items])

WellFormed == input.anomaly.kind = "none"

MatrixNames == {name \in PlannedTensors : Len(LogicalShape(input, name)) >= 2}

(* C2: after all shards have been processed, the region of every rank >= 2  *)
(* tensor holds the row-major encoding of the concatenation of its shard    *)
(* slices along the axis its name selects (axis 1 for tok_embeddings.*,     *)
(* *.attention.wo.weight, *.feed_forward.w2.weight, axis 0 otherwise).      *)
C2_RegionsHoldMergedTensor ==
    (pc = "done" /\ WellFormed) =>
        \A name \in MatrixNames :
            ReadRegion(TileStart(name), TileStart(name) + ExpectedSize(name))
                = Encoded(Lookup(toDict(models), name),
                          IF name = TokName THEN "float32" ELSE targetFloatType)

(* C3: per tensor name the write state only moves forward: an entry stays,  *)
(* bytesWritten never decreases, Complete stays Complete, and a slice that  *)
(* arrives for a Complete tensor moves neither the file position nor the    *)
(* file contents nor any tensor's progress.                                 *)
C3_ForwardOnly ==
    [][ /\ \A name \in DOMAIN layerProcessedBytes :
              /\ name \in DOMAIN layerProcessedBytes'
              /\ layerProcessedBytes[name] = -1 => layerProcessedBytes'[name] = -1
              /\ layerProcessedBytes[name] >= 0 =>
                    \/ layerProcessedBytes'[name] = -1
                    \/ layerProcessedBytes'[name] >= layerProcessedBytes[name]
        /\ (AtTensor /\ Complete(CurName)) =>
              /\ outFile' = outFile
              /\ layerProcessedBytes' = layerProcessedBytes
              /\ pc' # "failed"
      ]_vars

C3_Witness ==
    /\ \E name \in skipped : Complete(name) /\ WritesOf(name) # {}
    /\ \E name \in DOMAIN layerProcessedBytes : layerProcessedBytes[name] > 0

(* C4: a tensor name that is none of the recognized names aborts the run    *)
(* before any byte is written for it, and nothing is written or recorded    *)
(* afterwards.                                                              *)
C4_UnknownNameAborts ==
    [][ /\ pc # "failed"
        /\ (AtTensor /\ ~Recognized(CurName)) =>
              /\ pc' = "failed"
              /\ outFile' = outFile
              /\ layerProcessedBytes' = layerProcessedBytes
              /\ WritesOf(CurName) = {}
      ]_vars

C4_Witness ==
    /\ pc = "failed"
    /\ error = "Unknown layer"
    /\ ~Recognized(LastName)
    /\ tensorIdx < Len(modelDict)
    /\ Len(outFile.log) >= 2

(* C7: at the end of a run without fatal error every tensor of the planned  *)
(* layout that is not Complete is reported with its name and partial byte   *)
(* count, and no Complete tensor is reported.                               *)
C7_IncompleteReported ==
    pc = "done" =>
        /\ \A name \in PlannedTensors :
              ~Complete(name) =>
                  [name |-> name, processedBytes |-> BytesWritten(name)] \in warnings
        /\ \A w \in warnings : ~Complete(w.name)

(* C8: rope.freqs, wherever it is met (also as the first tensor of the run), *)
(* is marked Complete with no seek and no write, the run goes on, and the    *)
(* reserved rope region is never written.                                    *)
C8_RopeSkipped ==
    /\ \A k \in 1..tensorIdx :
          modelDict[k].name = RopeName =>
              /\ ~(pc = "failed" /\ k = tensorIdx)
              /\ Complete(RopeName)
    /\ WritesOf(RopeName) = {}

(* C9: with several shards a rank >= 2 tensor is Complete only after every  *)
(* shard has contributed its slice: none is Complete while a shard is still *)
(* to come, and no slice of one is skipped as already completed.            *)
C9_CompleteAfterAllShards ==
    WellFormed =>
        \A name \in MatrixNames :
            /\ Complete(name) => shardIdx = Len(models)
            /\ name \notin skipped

(* C10: every write for a tensor lies inside the byte range the layout      *)
(* assigns to that tensor, and no byte of the file is written twice.        *)
C10_DisjointWrites ==
    LET log == outFile.log IN
    /\ \A k \in 1..Len(log) :
          /\ log[k].off >= TileStart(log[k].name)
          /\ log[k].off + log[k].len
                <= TileStart(log[k].name) + RegionSize(log[k].name)
    /\ \A k, m \in 1..Len(log) :
          k < m => \/ log[k].off + log[k].len <= log[m].off
                   \/ log[m].off + log[m].len <= log[k].off

====
